---- MODULE Spec2Model ----
(***************************************************************************)
(* Smart Expense Tracker (src/project2.py): the SQLite record store        *)
(* (tables expenses and budget), the Streamlit pages that write to it, the *)
(* Dashboard budget logic and the two feedback functions.                  *)
(*                                                                         *)
(* Representation.                                                         *)
(*  - An amount (REAL column, Python float) is a whole number of currency  *)
(*    units.  Percentages are kept as exact fractions [num, den] and       *)
(*    compared by cross-multiplication; for the whole amounts used here    *)
(*    the float expression (a / b) * 100 compares with 100, 80, 50 and 10  *)
(*    exactly as the fraction does, and format(.., ".0f") rounds it as     *)
(*    Round0 rounds the fraction (denominators below 40).                  *)
(*  - A date is <<year, month, day>>.  str(date) is the fixed-width text   *)
(*    YYYY-MM-DD, whose text order (ORDER BY date) is the tuple order.     *)
(*  - A month key, the text YYYY-MM that str(Period) produces, is          *)
(*    <<year, month>>.                                                     *)
(*  - A message is a record: its kind, and the number it cites.            *)
(***************************************************************************)
EXTENDS Integers, Sequences, FiniteSets

VARIABLES
    expenses,   \* table expenses: set of rows [id, date, category, amount, description]
    budget,     \* table budget: set of rows [month, budget]
    seq,        \* sqlite_sequence entry of expenses (AUTOINCREMENT high-water mark)
    screen      \* what the last run of the script did and rendered

vars == <<expenses, budget, seq, screen>>

---------------------------------------------------------------------------
(* Bounds of the model *)

\* rows ever inserted into expenses
MaxSeq == 2
\* largest amount typed into a number_input of the pages
MaxAmount == 1
\* rows of a month subset handed to a feedback function
MaxRows == 2
\* largest amount of a row of a month subset, and of a Dashboard budget
MaxValue == 10

---------------------------------------------------------------------------
(* Configuration *)

HEALTHY_CATEGORIES ==
    {"Groceries", "Healthcare", "Medicine", "Gym", "Fitness", "Sports"}

UNHEALTHY_CATEGORIES ==
    {"Fast Food", "Junk Food", "Alcohol", "Smoking", "Sweets"}

CATEGORY_DISPLAY ==
    {"Food", "Groceries", "Fast Food", "Healthcare", "Medicine", "Gym",
     "Fitness", "Sports", "Travel", "Shopping", "Bills", "Others"}

\* thresholds of the Dashboard budget logic and of the feedback functions
ExceededPct == 100
WarningPct == 80
HalfUsedPct == 50
UnhealthyPct == 50
HealthyPct == 50
LowSavingsPct == 10

---------------------------------------------------------------------------
(* Inputs the pages are driven with *)

\* st.date_input: two dates of consecutive months
DateChoices == {<<2026, 1, 15>>, <<2026, 2, 15>>}

\* st.selectbox("Category", CATEGORY_DISPLAY): the store treats every entry alike
CategoryChoices == {"Groceries"}

\* st.number_input(..., min_value=0.0)
AmountChoices == 0..MaxAmount

\* st.text_input("Description") / st.text_input("Income Source")
TextChoices == {""}

\* st.text_input("Enter Month (YYYY-MM)"): the text typed, by its shape.
\*   "ym"   YYYY-MM        e.g. 2026-02
\*   "ymd"  YYYY-MM-DD     e.g. 2026-02-15
\*   "word" not a date     e.g. abc
\* A month number outside 1..12 (2026-13) is a text of shape "ym" too.
MonthInputs ==
    {[shape |-> s, y |-> d[1], m |-> d[2]] :
        s \in {"ym", "ymd"}, d \in DateChoices}
    \cup {[shape |-> "ym", y |-> 2026, m |-> 13], [shape |-> "word", y |-> 0, m |-> 0]}

---------------------------------------------------------------------------
(* Arithmetic helpers *)

Abs(x) == IF x < 0 THEN -x ELSE x

\* format(x, ".0f") of the fraction n / d (n >= 0, d > 0): round half to even
Round0(n, d) ==
    LET q == n \div d
        r == n % d
    IN  IF 2 * r < d THEN q
        ELSE IF 2 * r > d THEN q + 1
        ELSE IF q % 2 = 0 THEN q ELSE q + 1

\* (part / total) * 100 as an exact fraction; den = 0 is a division by zero
Percent(part, total) == [num |-> part * 100, den |-> total]

\* pct >= k and pct < k, for a fraction with den > 0
PctGE(pct, k) == pct.num >= k * pct.den
PctLT(pct, k) == pct.num < k * pct.den

RECURSIVE SumAmount(_)
\* df["Amount"].sum()
SumAmount(rows) ==
    IF rows = {} THEN 0
    ELSE LET r == CHOOSE x \in rows : TRUE
         IN  r.amount + SumAmount(rows \ {r})

\* df[df["Category"] == "Income"] and df[df["Category"] != "Income"]
IncomeRows(rows) == {r \in rows : r.category = "Income"}
ExpenseRows(rows) == {r \in rows : r.category # "Income"}

---------------------------------------------------------------------------
(* Dates and month keys *)

\* text order of two YYYY-MM-DD strings
DateLT(a, b) ==
    \/ a[1] < b[1]
    \/ a[1] = b[1] /\ a[2] < b[2]
    \/ a[1] = b[1] /\ a[2] = b[2] /\ a[3] < b[3]

\* str(pd.Timestamp(d).to_period("M"))
MonthOf(d) == <<d[1], d[2]>>

\* pd.Period(month_input, freq="M") raises
PeriodRaises(month_input) ==
    \/ month_input.shape = "word"
    \/ month_input.m < 1
    \/ month_input.m > 12

\* str(pd.Period(month_input, freq="M")) when it does not raise: every accepted
\* shape is normalised to the month key YYYY-MM
PeriodStr(month_input) == <<month_input.y, month_input.m>>

---------------------------------------------------------------------------
(* Record store *)

\* the row INSERT INTO expenses(date, category, amount, description) adds,
\* with the id AUTOINCREMENT assigns: one more than the high-water mark
NewRow(last_id, date_value, category, amount, description) ==
    [id |-> last_id + 1, date |-> date_value, category |-> category,
     amount |-> amount, description |-> description]

\* DeleteRow with a slip: DELETE ... WHERE id <= ?
DeleteRow_UpTo(rows, row_id) == {r \in rows : r.id > row_id}

\* DELETE FROM expenses WHERE id = ?
DeleteRow(rows, row_id) == {r \in rows : r.id # row_id}

\* ReplaceBudget with a slip: a plain INSERT into a table without the key
ReplaceBudget_InsertOnly(rows, month, budget_amount) ==
    rows \cup {[month |-> month, budget |-> budget_amount]}

\* INSERT OR REPLACE INTO budget(month, budget): month is the PRIMARY KEY, so
\* the row in conflict is removed before the new one is inserted
ReplaceBudget(rows, month, budget_amount) ==
    {b \in rows : b.month # month} \cup {[month |-> month, budget |-> budget_amount]}

\* ORDER BY date ASC, id ASC
RowBefore(a, b) == DateLT(a.date, b.date) \/ (a.date = b.date /\ a.id < b.id)

RECURSIVE OrderRows(_)
OrderRows(rows) ==
    IF rows = {} THEN <<>>
    ELSE LET first == CHOOSE r \in rows : \A o \in rows \ {r} : RowBefore(r, o)
         IN  <<first>> \o OrderRows(rows \ {first})

\* load_expenses() on a given content of the table
load_expenses(rows) == OrderRows(rows)

\* the ids of a frame, df["ID"].tolist()
IdsOf(df) == {df[i].id : i \in 1..Len(df)}

save_expense(date_value, category, amount, description) ==
    /\ seq < MaxSeq
    /\ expenses' = expenses \cup {NewRow(seq, date_value, category, amount, description)}
    /\ seq' = seq + 1
    /\ UNCHANGED budget

delete_expense_by_id(row_id) ==
    /\ expenses' = DeleteRow(expenses, row_id)
    /\ UNCHANGED <<budget, seq>>

save_budget_row(month, budget_amount) ==
    /\ budget' = ReplaceBudget(budget, month, budget_amount)
    /\ UNCHANGED <<expenses, seq>>

\* DELETE FROM expenses; DELETE FROM budget.  sqlite_sequence keeps its mark.
clear_all_data ==
    /\ expenses' = {}
    /\ budget' = {}
    /\ UNCHANGED seq

---------------------------------------------------------------------------
(* Feedback logic *)

get_health_tag(cat) ==
    IF cat \in HEALTHY_CATEGORIES THEN "healthy"
    ELSE IF cat \in UNHEALTHY_CATEGORIES THEN "unhealthy"
    ELSE "neutral"

\* pct = (spent / total_spent) * 100 if total_spent > 0 else 0
ShareOf(spent, total_spent) ==
    IF total_spent > 0 THEN Percent(spent, total_spent) ELSE [num |-> 0, den |-> 1]

\* HealthBranch with a slip: the healthy share is tested first
HealthBranch_HealthyFirst(unhealthy_pct, healthy_pct) ==
    IF PctGE(healthy_pct, HealthyPct) THEN "encouraging"
    ELSE IF PctGE(unhealthy_pct, UnhealthyPct) THEN "cautionary"
    ELSE "mixed"

\* the branch taken by the if / elif / else over the two percentages
HealthBranch(unhealthy_pct, healthy_pct) ==
    IF PctGE(unhealthy_pct, UnhealthyPct) THEN "cautionary"
    ELSE IF PctGE(healthy_pct, HealthyPct) THEN "encouraging"
    ELSE "mixed"

generate_health_feedback(month_df) ==
    LET exp_df == ExpenseRows(month_df)
        total_spent == SumAmount(exp_df)
        healthy_spent == SumAmount({r \in exp_df : get_health_tag(r.category) = "healthy"})
        unhealthy_spent == SumAmount({r \in exp_df : get_health_tag(r.category) = "unhealthy"})
        healthy_pct == ShareOf(healthy_spent, total_spent)
        unhealthy_pct == ShareOf(unhealthy_spent, total_spent)
        branch == HealthBranch(unhealthy_pct, healthy_pct)
    IN  IF exp_df = {} THEN [kind |-> "no_data", cited |-> <<>>]
        ELSE IF healthy_pct.den = 0 \/ unhealthy_pct.den = 0
            THEN [kind |-> "ZeroDivisionError", cited |-> <<>>]
        ELSE IF branch = "cautionary"
            THEN [kind |-> branch, cited |-> <<Round0(unhealthy_pct.num, unhealthy_pct.den)>>]
        ELSE IF branch = "encouraging"
            THEN [kind |-> branch, cited |-> <<Round0(healthy_pct.num, healthy_pct.den)>>]
        ELSE [kind |-> branch, cited |-> <<>>]

\* the three early returns of generate_income_feedback
IncomeEarlyReturn(income, expense) ==
    IF income = 0 /\ expense = 0 THEN "no_activity"
    ELSE IF income = 0 /\ expense > 0 THEN "expenses_without_income"
    ELSE IF income > 0 /\ expense = 0 THEN "income_without_expenses"
    ELSE "none"

\* savings_pct = (savings / income) * 100 if income > 0 else 0
SavingsPct(savings, income) ==
    IF income > 0 THEN Percent(savings, income) ELSE [num |-> 0, den |-> 1]

\* SavingsBranch with a slip: savings <= 0 counts as overspending
SavingsBranch_NoSavings(savings, savings_pct) ==
    IF savings <= 0 THEN "overspend"
    ELSE IF PctLT(savings_pct, LowSavingsPct) THEN "low_savings"
    ELSE "good_savings"

\* SavingsBranch with a slip: savings_pct <= 10 is the low band
SavingsBranch_Inclusive(savings, savings_pct) ==
    IF savings < 0 THEN "overspend"
    ELSE IF savings_pct.num <= LowSavingsPct * savings_pct.den THEN "low_savings"
    ELSE "good_savings"

\* the branch taken after savings and savings_pct are computed
SavingsBranch(savings, savings_pct) ==
    IF savings < 0 THEN "overspend"
    ELSE IF PctLT(savings_pct, LowSavingsPct) THEN "low_savings"
    ELSE "good_savings"

generate_income_feedback(month_df) ==
    LET income == SumAmount(IncomeRows(month_df))
        expense == SumAmount(ExpenseRows(month_df))
        early == IncomeEarlyReturn(income, expense)
        savings == income - expense
        savings_pct == SavingsPct(savings, income)
        branch == SavingsBranch(savings, savings_pct)
    IN  IF early # "none" THEN [kind |-> early, cited |-> <<>>]
        ELSE IF savings_pct.den = 0 THEN [kind |-> "ZeroDivisionError", cited |-> <<>>]
        ELSE IF branch = "overspend"
            THEN [kind |-> branch, cited |-> <<Round0(Abs(savings), 1)>>]
        ELSE [kind |-> branch, cited |-> <<Round0(savings_pct.num, savings_pct.den)>>]

---------------------------------------------------------------------------
(* Dashboard budget logic *)

\* BudgetBand with a slip: the bands compare with > instead of >=
BudgetBand_Strict(budget_pct) ==
    IF budget_pct.num > ExceededPct * budget_pct.den THEN "exceeded"
    ELSE IF budget_pct.num > WarningPct * budget_pct.den THEN "warning"
    ELSE IF budget_pct.num > HalfUsedPct * budget_pct.den THEN "half_used"
    ELSE "on_track"

\* the band chosen by the if / elif chain over budget_pct
BudgetBand(budget_pct) ==
    IF PctGE(budget_pct, ExceededPct) THEN "exceeded"
    ELSE IF PctGE(budget_pct, WarningPct) THEN "warning"
    ELSE IF PctGE(budget_pct, HalfUsedPct) THEN "half_used"
    ELSE "on_track"

\* the block under "if budget > 0": the two metrics and the alert
BudgetLogic(expense, budget_value) ==
    IF budget_value > 0
    THEN LET budget_pct == Percent(expense, budget_value)
             remaining == budget_value - expense
             band == BudgetBand(budget_pct)
             used == Round0(budget_pct.num, budget_pct.den)
         IN  [shown |-> TRUE, used |-> used, remaining |-> remaining,
              alert |-> [kind |-> band,
                         cited |-> CASE band = "exceeded" -> <<Round0(Abs(remaining), 1)>>
                                     [] band = "warning" -> <<used, remaining>>
                                     [] band = "half_used" -> <<remaining>>
                                     [] OTHER -> <<>>]]
    ELSE [shown |-> FALSE, used |-> 0, remaining |-> 0,
          alert |-> [kind |-> "none", cited |-> <<>>]]

\* budget_row = budget_df[budget_df["Month"] == today_month];
\* budget = budget_row.iloc[0]["Budget"] if not budget_row.empty else 0.0
BudgetOfMonth(rows, today_month) ==
    LET budget_row == {b \in rows : b.month = today_month}
    IN  IF budget_row # {} THEN (CHOOSE b \in budget_row : TRUE).budget ELSE 0

\* DashboardExpense with a slip: only the rows dated in the current month
DashboardExpense_ThisMonth(rows, today_month) ==
    SumAmount({r \in ExpenseRows(rows) : MonthOf(r.date) = today_month})

\* expense = df[df["Category"] != "Income"]["Amount"].sum() over the loaded frame
DashboardExpense(rows, today_month) == SumAmount(ExpenseRows(rows))

---------------------------------------------------------------------------
(* Pages: one action per button, or per rendering of a page *)

\* AmountRefused with a slip: only a negative amount is refused
AmountRefused_Negative(amount) == amount < 0

\* "if income_amount <= 0" / "if amount <= 0": the add is refused with a warning
AmountRefused(amount) == amount <= 0

\* BudgetIsSaved with a slip: the save runs whether or not pd.Period raised
BudgetIsSaved_Always(month_input) == TRUE

\* the try / except / else around pd.Period: the else branch saves
BudgetIsSaved(month_input) == ~PeriodRaises(month_input)

\* RowIds with a slip: the selectbox offers the ids of the whole frame
RowIds_All(rows) == IdsOf(load_expenses(rows))

\* row_ids = expense_df["RowID"].tolist(), expense_df the rows not of category Income
RowIds(rows) == IdsOf(load_expenses(ExpenseRows(rows)))

\* sidebar button "Clear All Data"
ClearAllData ==
    /\ clear_all_data
    /\ screen' = [op |-> "ClearAllData", notice |-> "success"]

\* page "Set Budget", button "Save Budget"
SetBudget(month_input, budget_amount) ==
    IF BudgetIsSaved(month_input)
    THEN /\ save_budget_row(PeriodStr(month_input), budget_amount)
         /\ screen' = [op |-> "SetBudget", month_input |-> month_input,
                       notice |-> "success"]
    ELSE /\ UNCHANGED <<expenses, budget, seq>>
         /\ screen' = [op |-> "SetBudget", month_input |-> month_input,
                       notice |-> "error"]

\* page "Add Income", button "Save Income"
AddIncome(income_date, income_amount, source) ==
    IF AmountRefused(income_amount)
    THEN /\ UNCHANGED <<expenses, budget, seq>>
         /\ screen' = [op |-> "AddIncome", amount |-> income_amount, notice |-> "warning"]
    ELSE /\ save_expense(income_date, "Income", income_amount, source)
         /\ screen' = [op |-> "AddIncome", amount |-> income_amount, notice |-> "success"]

\* page "Add Expense", button "Save Expense"
AddExpense(exp_date, category, amount, description) ==
    IF AmountRefused(amount)
    THEN /\ UNCHANGED <<expenses, budget, seq>>
         /\ screen' = [op |-> "AddExpense", amount |-> amount, notice |-> "warning"]
    ELSE /\ save_expense(exp_date, category, amount, description)
         /\ screen' = [op |-> "AddExpense", amount |-> amount, notice |-> "success"]

\* page "Delete Expense", button "Delete Selected Expense": only rendered when
\* expense_df is not empty, with the selectbox over row_ids
DeleteExpense(selected_row_id) ==
    /\ selected_row_id \in RowIds(expenses)
    /\ delete_expense_by_id(selected_row_id)
    /\ screen' = [op |-> "DeleteExpense", row_id |-> selected_row_id, notice |-> "success"]

\* page "Delete Expense" with no expense rows: nothing to select
DeleteExpenseEmpty ==
    /\ RowIds(expenses) = {}
    /\ UNCHANGED <<expenses, budget, seq>>
    /\ screen' = [op |-> "DeleteExpense", row_id |-> 0, notice |-> "info"]

\* page "Dashboard", rendered on the day `today`
Dashboard(today) ==
    LET df == load_expenses(expenses)
        rows == {df[i] : i \in 1..Len(df)}
        today_month == MonthOf(today)
        income == SumAmount(IncomeRows(rows))
        expense == DashboardExpense(rows, today_month)
        budget_value == BudgetOfMonth(budget, today_month)
    IN  /\ UNCHANGED <<expenses, budget, seq>>
        /\ screen' =
             IF Len(df) = 0
             THEN [op |-> "Dashboard", notice |-> "info"]
             ELSE [op |-> "Dashboard", notice |-> "overview",
                   today_month |-> today_month,
                   income |-> income, expense |-> expense,
                   balance |-> income - expense, budget |-> budget_value,
                   logic |-> BudgetLogic(expense, budget_value)]

\* page "Smart Insights & Feedback" for the month selected
SmartInsights(selected_month) ==
    LET df == load_expenses(expenses)
        rows == {df[i] : i \in 1..Len(df)}
        month_df == {r \in rows : MonthOf(r.date) = selected_month}
    IN  /\ selected_month \in {MonthOf(r.date) : r \in rows}
        /\ UNCHANGED <<expenses, budget, seq>>
        /\ screen' = [op |-> "SmartInsights", notice |-> "feedback",
                      month |-> selected_month,
                      income |-> SumAmount(IncomeRows(month_df)),
                      expense |-> SumAmount(ExpenseRows(month_df)),
                      health_fb |-> generate_health_feedback(month_df),
                      income_fb |-> generate_income_feedback(month_df)]

---------------------------------------------------------------------------
(* The application: an empty tracker.db, then any sequence of page actions *)

Init ==
    /\ expenses = {}
    /\ budget = {}
    /\ seq = 0
    /\ screen = [op |-> "start", notice |-> "none"]

Next ==
    \/ ClearAllData
    \/ \E mi \in MonthInputs, a \in AmountChoices : SetBudget(mi, a)
    \/ \E d \in DateChoices, a \in AmountChoices, t \in TextChoices : AddIncome(d, a, t)
    \/ \E d \in DateChoices, c \in CategoryChoices, a \in AmountChoices, t \in TextChoices :
          AddExpense(d, c, a, t)
    \/ \E id \in 1..MaxSeq : DeleteExpense(id)
    \/ DeleteExpenseEmpty
    \/ \E d \in DateChoices : Dashboard(d)

Spec == Init /\ [][Next]_vars

---------------------------------------------------------------------------
(* The record store alone: its operations called with any arguments *)

StoreSave(date_value, category, amount, description) ==
    /\ save_expense(date_value, category, amount, description)
    /\ screen' = [op |-> "save_expense", notice |-> "none"]

StoreDelete(row_id) ==
    /\ delete_expense_by_id(row_id)
    /\ screen' = [op |-> "delete_expense_by_id", row_id |-> row_id, notice |-> "none"]

StoreSaveBudget(month, budget_amount) ==
    /\ save_budget_row(month, budget_amount)
    /\ screen' = [op |-> "save_budget_row", notice |-> "none"]

StoreClear ==
    /\ clear_all_data
    /\ screen' = [op |-> "clear_all_data", notice |-> "none"]

StoreLoad ==
    /\ UNCHANGED <<expenses, budget, seq>>
    /\ screen' = [op |-> "load_expenses", df |-> load_expenses(expenses), notice |-> "none"]

StoreNext ==
    \/ \E d \in DateChoices, c \in CategoryChoices \cup {"Income"},
          a \in AmountChoices, t \in TextChoices : StoreSave(d, c, a, t)
    \/ \E id \in 1..MaxSeq : StoreDelete(id)
    \/ \E d \in DateChoices, a \in AmountChoices : StoreSaveBudget(MonthOf(d), a)
    \/ StoreClear
    \/ StoreLoad

StoreSpec == Init /\ [][StoreNext]_vars

---------------------------------------------------------------------------
(* The feedback functions on any month subset *)

\* categories of the rows of a month subset: Income, a healthy, an unhealthy
\* and a neutral one
FeedbackCategories == {"Income", "Groceries", "Fast Food", "Travel"}

FeedbackDate == <<2026, 2, 15>>

\* a month subset of n rows, ids 1..n
MonthSubsets(n) ==
    {{[id |-> i, date |-> FeedbackDate, category |-> f[i][1], amount |-> f[i][2],
       description |-> ""] : i \in 1..n} :
        f \in [1..n -> FeedbackCategories \X (0..MaxValue)]}

FeedbackInit ==
    /\ \E n \in 0..MaxRows : expenses \in MonthSubsets(n) /\ seq = n
    /\ budget = {}
    /\ screen = [op |-> "start", notice |-> "none"]

FeedbackNext == SmartInsights(MonthOf(FeedbackDate))

FeedbackSpec == FeedbackInit /\ [][FeedbackNext]_vars

---------------------------------------------------------------------------
(* The Dashboard budget logic on any expense total and budget amount *)

DashboardInit ==
    /\ \E e \in 0..MaxValue :
         expenses = {[id |-> 1, date |-> FeedbackDate, category |-> "Groceries",
                      amount |-> e, description |-> ""]}
    /\ \E b \in 0..MaxValue : budget = {[month |-> MonthOf(FeedbackDate), budget |-> b]}
    /\ seq = 1
    /\ screen = [op |-> "start", notice |-> "none"]

DashboardNext == Dashboard(FeedbackDate)

DashboardSpec == DashboardInit /\ [][DashboardNext]_vars

---------------------------------------------------------------------------
(* Properties of the application (Spec) *)

StoreUnchanged == expenses' = expenses /\ budget' = budget /\ seq' = seq

\* the input is not a year-month text: not a date, or a month outside 1..12
NotAYearMonth(month_input) ==
    month_input.shape = "word" \/ month_input.m \notin 1..12

\* C1: the budget table holds at most one entry per month key; a Set Budget
\* that saves leaves, for the month it names, exactly the entry with the amount
\* just given, and the entries of the other months as they were; adding,
\* deleting and looking at transactions leaves the budget table alone.
C1_BudgetUpsert ==
    /\ [](\A a \in budget : \A b \in budget : a.month = b.month => a = b)
    /\ [][/\ \A mi \in MonthInputs : \A amt \in AmountChoices :
               (SetBudget(mi, amt) /\ screen'.notice = "success") =>
                   /\ {b \in budget' : b.month = <<mi.y, mi.m>>}
                        = {[month |-> <<mi.y, mi.m>>, budget |-> amt]}
                   /\ {b \in budget' : b.month # <<mi.y, mi.m>>}
                        = {b \in budget : b.month # <<mi.y, mi.m>>}
          /\ screen'.op \in {"AddIncome", "AddExpense", "DeleteExpense", "Dashboard"}
               => budget' = budget]_vars

\* C1 witness: a budget of 0 was saved under the text 2026-02-15; the table holds
\* one entry for 2026-02, with that amount, and the entry of 2026-01
C1_Witness ==
    /\ screen.op = "SetBudget" /\ screen.notice = "success"
    /\ screen.month_input = [shape |-> "ymd", y |-> 2026, m |-> 2]
    /\ budget = {[month |-> <<2026, 2>>, budget |-> 0],
                 [month |-> <<2026, 1>>, budget |-> 1]}
    /\ expenses # {}

C8_AmountsNonNegative ==
    /\ [](\A r \in expenses : r.amount >= 0)
    /\ [][(screen'.op \in {"AddIncome", "AddExpense"} /\ screen'.amount <= 0) =>
             (screen'.notice = "warning" /\ StoreUnchanged)]_vars

\* C8 witness: an Add Expense of amount 0 was refused, the store holding rows
C8_Witness ==
    /\ screen.op = "AddExpense" /\ screen.amount = 0 /\ screen.notice = "warning"
    /\ expenses # {}

\* C9: the Dashboard's budget is the entry of the current month, and the
\* expense total it is compared with is the sum over the stored non-Income
\* transactions of every month; remaining and the percentage follow from the two.
C9_DashboardAllMonths ==
    (screen.op = "Dashboard" /\ screen.notice = "overview") =>
        LET all == SumAmount({r \in expenses : r.category # "Income"})
            entry == {b \in budget : b.month = screen.today_month}
        IN  /\ screen.expense = all
            /\ entry = {} => screen.budget = 0
            /\ \A b \in entry : screen.budget = b.budget
            /\ screen.logic.shown = (screen.budget > 0)
            /\ screen.logic.shown =>
                 /\ screen.logic.remaining = screen.budget - all
                 /\ screen.logic.used = Round0(all * 100, screen.budget)

\* C9 witness: in 2026-02, with no expense dated 2026-02 and one of January,
\* the Dashboard reports the February budget as used up
C9_Witness ==
    /\ screen.op = "Dashboard" /\ screen.notice = "overview"
    /\ screen.today_month = <<2026, 2>>
    /\ screen.logic.shown
    /\ \A r \in expenses : r.category # "Income" => r.date[2] = 1
    /\ screen.logic.used > 0
    /\ screen.logic.alert.kind = "exceeded"

\* C10: Delete Expense deletes an id of a stored non-Income transaction and
\* nothing else; a stored Income transaction stays, unchanged, through every
\* action but Clear All Data, which leaves both tables empty.
C10_IncomeKept ==
    [][/\ screen'.op = "DeleteExpense" =>
            \/ screen'.notice = "info" /\ StoreUnchanged
            \/ /\ \E r \in expenses : r.id = screen'.row_id /\ r.category # "Income"
               /\ expenses' = {r \in expenses : r.id # screen'.row_id}
       /\ screen'.op # "ClearAllData" =>
            \A r \in expenses : r.category = "Income" => r \in expenses'
       /\ screen'.op = "ClearAllData" => (expenses' = {} /\ budget' = {})]_vars

\* C10 witness: an expense was deleted and an Income transaction is still stored
C10_Witness ==
    /\ screen.op = "DeleteExpense" /\ screen.notice = "success"
    /\ \E r \in expenses : r.category = "Income" /\ r.id > screen.row_id

---------------------------------------------------------------------------
(* Properties of the record store (StoreSpec) *)

\* C2: delete_expense_by_id(id) removes exactly the row of that id: a
\* following load_expenses does not list it, every other row is kept as it was,
\* the budget table is unchanged, and an id that is not stored changes nothing.
C2_DeleteExactlyId ==
    [][screen'.op = "delete_expense_by_id" =>
         LET id == screen'.row_id
             listed == load_expenses(expenses')
         IN  /\ \A i \in 1..Len(listed) : listed[i].id # id
             /\ \A r \in expenses : r.id # id => \E i \in 1..Len(listed) : listed[i] = r
             /\ expenses' \subseteq expenses
             /\ budget' = budget
             /\ (\A r \in expenses : r.id # id) => StoreUnchanged]_vars

\* C2 witness: id 1 was deleted and the row of id 2 is still stored
C2_Witness ==
    /\ screen.op = "delete_expense_by_id" /\ screen.row_id = 1
    /\ seq = 2
    /\ \E r \in expenses : r.id = 2
    /\ budget # {}

---------------------------------------------------------------------------
(* Properties of the Dashboard budget logic (DashboardSpec) *)

\* C4: for a budget > 0 the alert is the first matching band of
\* expense / budget * 100: >= 100 exceeded, citing |budget - expense|; else
\* >= 80 warning; else >= 50 half-used; else on track.
C4_BudgetBands ==
    (screen.op = "Dashboard" /\ screen.notice = "overview") =>
        LET e == SumAmount(expenses)
            b == (CHOOSE x \in budget : TRUE).budget
            kind == screen.logic.alert.kind
        IN  b > 0 =>
              /\ screen.logic.shown
              /\ kind = "exceeded" <=> e * 100 >= 100 * b
              /\ kind = "exceeded" => screen.logic.alert.cited = <<Abs(b - e)>>
              /\ kind = "warning" <=> (e * 100 < 100 * b /\ e * 100 >= 80 * b)
              /\ kind = "half_used" <=> (e * 100 < 80 * b /\ e * 100 >= 50 * b)
              /\ kind = "on_track" <=> e * 100 < 50 * b

\* C4 witness: expense 4 of budget 5 is exactly 80 percent, and the warning
C4_Witness ==
    /\ screen.op = "Dashboard" /\ screen.notice = "overview"
    /\ screen.expense = 4 /\ screen.budget = 5
    /\ screen.logic.used = 80
    /\ screen.logic.alert.kind = "warning"

---------------------------------------------------------------------------
(* Properties of the feedback functions (FeedbackSpec) *)

\* the income and expense totals of the month subset
IncomeTotal == SumAmount({r \in expenses : r.category = "Income"})
ExpenseTotal == SumAmount({r \in expenses : r.category # "Income"})

\* C5: income_feedback returns one message of the case table and never
\* divides by zero: no activity iff both totals are 0; expenses without income
\* iff income = 0 < expense; income without expenses iff expense = 0 < income;
\* with both > 0, the overspend message, citing expense - income, iff
\* expense > income, and otherwise one of the two savings-rate messages.
C5_IncomeFeedbackTotal ==
    screen.op = "SmartInsights" =>
        LET k == screen.income_fb.kind
            inc == IncomeTotal
            exp == ExpenseTotal
        IN  /\ k \in {"no_activity", "expenses_without_income", "income_without_expenses",
                      "overspend", "low_savings", "good_savings"}
            /\ k = "no_activity" <=> (inc = 0 /\ exp = 0)
            /\ k = "expenses_without_income" <=> (inc = 0 /\ exp > 0)
            /\ k = "income_without_expenses" <=> (inc > 0 /\ exp = 0)
            /\ k = "overspend" <=> (inc > 0 /\ exp > 0 /\ exp > inc)
            /\ k = "overspend" => screen.income_fb.cited = <<exp - inc>>
            /\ k \in {"low_savings", "good_savings"} <=> (inc > 0 /\ exp > 0 /\ exp <= inc)

\* C5 witness: income 3 and expense 5 give the overspend message citing 2
C5_Witness ==
    /\ screen.op = "SmartInsights"
    /\ IncomeTotal = 3 /\ ExpenseTotal = 5
    /\ screen.income_fb = [kind |-> "overspend", cited |-> <<2>>]

\* C6 as stated: a savings percentage of exactly 10 gives the low savings
\* rate message.
C6_Original ==
    (/\ screen.op = "SmartInsights"
     /\ IncomeTotal > 0 /\ ExpenseTotal > 0
     /\ (IncomeTotal - ExpenseTotal) * 100 = 10 * IncomeTotal)
        => screen.income_fb.kind = "low_savings"

\* C6 as amended: a savings percentage of exactly 10 gives the good savings
\* rate message, citing 10; the low savings rate message is given exactly for
\* a percentage from 0 to below 10.
C6_TenPercentIsGood ==
    (screen.op = "SmartInsights" /\ IncomeTotal > 0 /\ ExpenseTotal > 0) =>
        /\ (IncomeTotal - ExpenseTotal) * 100 = 10 * IncomeTotal
             => screen.income_fb = [kind |-> "good_savings", cited |-> <<10>>]
        /\ screen.income_fb.kind = "low_savings" <=>
             /\ IncomeTotal - ExpenseTotal >= 0
             /\ (IncomeTotal - ExpenseTotal) * 100 < 10 * IncomeTotal

\* C6 witness: income 10 and expense 9, the good savings rate message
C6_Witness ==
    /\ screen.op = "SmartInsights"
    /\ IncomeTotal = 10 /\ ExpenseTotal = 9
    /\ screen.income_fb.kind = "good_savings"

\* C7: health_feedback returns one message: no data iff the subset has no
\* non-Income row; otherwise cautionary iff the unhealthy share is >= 50
\* percent, else encouraging iff the healthy share is >= 50 percent, else mixed;
\* both shares are 0 when the expense total is 0; at 50 / 50 cautionary wins.
C7_HealthFeedback ==
    screen.op = "SmartInsights" =>
        LET k == screen.health_fb.kind
            exp_rows == {r \in expenses : r.category # "Income"}
            total == SumAmount(exp_rows)
            unhealthy == SumAmount({r \in exp_rows : r.category \in UNHEALTHY_CATEGORIES})
            healthy == SumAmount({r \in exp_rows : r.category \in HEALTHY_CATEGORIES})
            unhealthy_high == total > 0 /\ unhealthy * 100 >= 50 * total
            healthy_high == total > 0 /\ healthy * 100 >= 50 * total
        IN  /\ k \in {"no_data", "cautionary", "encouraging", "mixed"}
            /\ k = "no_data" <=> exp_rows = {}
            /\ exp_rows # {} =>
                 /\ k = "cautionary" <=> unhealthy_high
                 /\ k = "encouraging" <=> (~unhealthy_high /\ healthy_high)
                 /\ k = "mixed" <=> (~unhealthy_high /\ ~healthy_high)

\* C7 witness: Groceries 3 and Fast Food 3, both shares exactly 50 percent,
\* and the cautionary message citing 50
C7_Witness ==
    /\ screen.op = "SmartInsights"
    /\ \E r \in expenses : r.category = "Groceries" /\ r.amount = 3
    /\ \E r \in expenses : r.category = "Fast Food" /\ r.amount = 3
    /\ screen.health_fb = [kind |-> "cautionary", cited |-> <<50>>]

====
